---- MODULE Spec2Model ----
(***************************************************************************)
(* A model of the obligation handlers of LicenseDb (pkg/api/obligations.go) *)
(* and of the optional / nullable JSON wrappers of pkg/models.              *)
(*                                                                          *)
(* The store is the obligations table, the audits table (with the change    *)
(* logs of each audit) and the obligation_licenses table.                   *)
(*   Spec       serves the requests one at a time: a handler runs as one    *)
(*              action, then its response is delivered (Reply).             *)
(*   SpecConc   runs two workers; a handler is one action per statement that *)
(*              reads or writes the obligations table, under the database's *)
(*              default isolation (READ COMMITTED).                         *)
(*   SpecDecode decodes JSON documents into the optional wrappers.          *)
(***************************************************************************)
EXTENDS Integers, Sequences, FiniteSets, TLC

VARIABLES
    obligations,     \* the rows of the obligations table (a set of Obligation records)
    audits,          \* the rows of the audits table, in insertion order, each with its ChangeLogs
    obligationMaps,  \* the rows of the obligation_licenses table, in insertion order
    last,            \* the call a handler has just served: inputs, response, store before it
    calls,           \* number of requests accepted so far
    txs,             \* SpecConc: per worker, the handler it runs and where it stands
    dec              \* SpecDecode: a json.Unmarshal of a document into a struct

vars == <<obligations, audits, obligationMaps, last, calls, txs, dec>>

----------------------------------------------------------------------------
(* Bounds and input domains *)

\* Requests served in one behaviour.
MaxCalls == 3

Topics == {"T1", "T2"}
Texts == {"hello", "Attribution is required"}
Types == {"RISK", "RIGHT"}
Classifications == {"green", "red"}

\* users table: username -> id.  "ghost" passed the API key check but has no row.
UserTable == [alice |-> 7]

\* license_dbs table: shortname -> id.
LicenseTable == [MIT |-> 1]

----------------------------------------------------------------------------
(* Values *)

\* sql.NullString
NullStr(s) == [String |-> s, Valid |-> TRUE]
NullStrNone == [String |-> "", Valid |-> FALSE]

\* *string of a ChangeLog: nil, or a pointer to a string
Nil == <<>>
Ptr(s) == <<s>>

\* md5.Sum + hex.EncodeToString, tabulated on the texts of the model
Md5Hex(s) ==
    CASE s = "hello" -> "5d41402abc4b2a76b9719d911017c592"
      [] s = "Attribution is required" -> "71cd8aad7525b44de4b73150e2497f6b"
      [] s = "" -> "d41d8cd98f00b204e9800998ecf8427e"

\* strconv.FormatBool
FormatBool(b) == IF b THEN "true" ELSE "false"

\* The zero value of models.Obligation
ZeroObligation ==
    [Id |-> 0, Topic |-> "", Type |-> "", Text |-> "", Classification |-> "",
     Comment |-> NullStrNone, Modifications |-> FALSE, Active |-> FALSE,
     TextUpdatable |-> FALSE, Md5 |-> ""]

Min(S) == CHOOSE x \in S : \A y \in S : x <= y

\* .Where(...).First(&o): the matching row of the lowest primary key
First(rows) == CHOOSE r \in rows : r.Id = Min({q.Id : q \in rows})

\* Where(models.Obligation{Topic: tp})
ByTopic(obs, tp) == {r \in obs : r.Topic = tp}

----------------------------------------------------------------------------
(* The call record *)

NoCall ==
    [op |-> "none", topic |-> "", input |-> <<>>, env |-> <<>>,
     status |-> "none", message |-> "", data |-> <<>>,
     preObligations |-> {}, preAudits |-> <<>>, preMaps |-> <<>>, prevDeleted |-> ""]

Workers == {"w1", "w2"}

\* A worker that runs no handler
IdleTx ==
    [pc |-> "idle", op |-> "none", topic |-> "", input |-> <<>>, env |-> <<>>,
     obligation |-> <<>>, m |-> <<>>, newObligation |-> <<>>, locked |-> 0,
     before |-> <<>>, raced |-> {}, changes |-> <<>>, found |-> FALSE, status |-> "none"]

NoDecode == [pc |-> "none"]

Init ==
    /\ obligations = {}
    /\ audits = <<>>
    /\ obligationMaps = <<>>
    /\ last = NoCall
    /\ calls = 0
    /\ txs = [w \in Workers |-> IdleTx]
    /\ dec = NoDecode

\* The record of a served call: what came in, what c.JSON / c.Status sent, and
\* the tables as they were when the handler started
Served(op, tp, input, env, res) ==
    [op |-> op, topic |-> tp, input |-> input, env |-> env,
     status |-> res.status, message |-> res.message, data |-> res.data,
     preObligations |-> obligations, preAudits |-> audits, preMaps |-> obligationMaps,
     prevDeleted |-> last.prevDeleted]

\* The server is idle and accepts a request
Idle == last.op = "none" /\ calls < MaxCalls

\* The response of the served call has been written: the next request can come.
Reply ==
    /\ last.op # "none"
    /\ last' = [NoCall EXCEPT !.prevDeleted =
                    IF last.op = "Delete" /\ last.status = "StatusNoContent"
                    THEN last.topic ELSE ""]
    /\ UNCHANGED <<obligations, audits, obligationMaps, calls, txs, dec>>

----------------------------------------------------------------------------
(* The storage collaborator *)

\* An obligations table without unique indexes
UniqueOkWithoutIndexes(others, row) == TRUE

\* The unique indexes of the obligations table (topic, md5): a row the table
\* may hold next to the rows `others`.
UniqueOk(others, row) ==
    \A r \in others : r.Topic # row.Topic /\ r.Md5 # row.Md5

\* The foreign key of obligation_licenses.rf_pk to license_dbs.id.
ForeignKeyOk(obmap) ==
    \E sn \in DOMAIN LicenseTable : LicenseTable[sn] = obmap.RfPk

\* The serial primary key of a new obligations row.
NextId(obs) == Cardinality(obs) + 1

----------------------------------------------------------------------------
(* CreateObligation *)

\* The request bodies of POST /obligations the model sends
POSTBodies ==
    { [Topic |-> tp, Text |-> tx, Type |-> k.Type, Classification |-> k.Classification,
       Comment |-> k.Comment, Modifications |-> k.Modifications, Active |-> k.Active,
       Shortnames |-> k.Shortnames] :
        tp \in Topics, tx \in Texts,
        k \in { [Type |-> "RISK", Classification |-> "green", Comment |-> NullStrNone,
                 Modifications |-> FALSE, Active |-> TRUE, Shortnames |-> <<"MIT", "Nope">>],
                [Type |-> "RIGHT", Classification |-> "red", Comment |-> NullStr("c"),
                 Modifications |-> TRUE, Active |-> FALSE, Shortnames |-> <<"">>] } }

\* obligation.Text[0:10] panics on a text shorter than this
ErrorTextPrefix == 10

\* Where(&Obligation{Topic: ...}).Or(&Obligation{Md5: ...}): the rows FirstOrCreate looks among
TopicOrMd5(obs, topic, md5hash) ==
    {r \in obs : r.Topic = topic \/ r.Md5 = md5hash}

\* The obligation the handler builds from the request body
ObligationOf(input) ==
    [Id |-> 0, Md5 |-> Md5Hex(input.Text), Type |-> input.Type, Topic |-> input.Topic,
     Text |-> input.Text, Classification |-> input.Classification,
     Comment |-> input.Comment, Modifications |-> input.Modifications,
     Active |-> input.Active, TextUpdatable |-> FALSE]

\* The INSERT of FirstOrCreate, sent when its SELECT found no row
Insert(obs, obligation) ==
    LET row == [obligation EXCEPT !.Id = NextId(obs)]
    IN  IF UniqueOk(obs, row)
        THEN [obligation |-> row, RowsAffected |-> 1, obligations |-> obs \cup {row}]
        ELSE [obligation |-> obligation, RowsAffected |-> 0, obligations |-> obs]

\* FirstOrCreate(&obligation): [obligation, RowsAffected, obligations]
FirstOrCreate(obs, obligation) ==
    LET found == TopicOrMd5(obs, obligation.Topic, obligation.Md5)
    IN  IF found # {}
        THEN [obligation |-> First(found), RowsAffected |-> 0, obligations |-> obs]
        ELSE Insert(obs, obligation)

\* db.DB.Where(models.LicenseDB{Shortname: i}).Find(&license): license.Id.
\* A struct condition takes the non-zero fields only: for the empty string
\* there is no condition and Find loads a row of the table (the table of the
\* model holds one license, so it is that one).  No row leaves license.Id 0.
FindLicense(i) ==
    LET rows == IF i = "" THEN DOMAIN LicenseTable ELSE {sn \in DOMAIN LicenseTable : sn = i}
    IN  IF rows = {} THEN 0 ELSE LicenseTable[CHOOSE sn \in rows : TRUE]

\* The loop over input.Shortnames: one db.DB.Create(&obmap) per name, its error ignored
RECURSIVE LinkLicenses(_, _, _)
LinkLicenses(maps, obligationId, shortnames) ==
    IF shortnames = <<>> THEN maps
    ELSE LET i == Head(shortnames)
             licenseId == FindLicense(i)
             obmap == [ObligationPk |-> obligationId, RfPk |-> licenseId]
         IN  LinkLicenses(IF ForeignKeyOk(obmap) THEN Append(maps, obmap) ELSE maps,
                          obligationId, Tail(shortnames))

\* What the handler does with the result of FirstOrCreate
CreateResponse(result, maps, input) ==
    IF result.RowsAffected = 0
    THEN IF Len(result.obligation.Text) < ErrorTextPrefix
         THEN [status |-> "panic", message |-> "slice bounds out of range",
               data |-> <<>>, obligations |-> result.obligations, maps |-> maps]
         ELSE [status |-> "StatusConflict",
               message |-> "can not create obligation with same topic or text",
               data |-> <<>>, obligations |-> result.obligations, maps |-> maps]
    ELSE [status |-> "StatusCreated", message |-> "", data |-> result.obligation,
          obligations |-> result.obligations,
          maps |-> LinkLicenses(maps, result.obligation.Id, input.Shortnames)]

\* The handler on the store: [status, message, data, obligations, maps]
CreateResult(obs, maps, input) ==
    CreateResponse(FirstOrCreate(obs, ObligationOf(input)), maps, input)

CreateObligation(input) ==
    /\ Idle
    /\ LET res == CreateResult(obligations, obligationMaps, input)
       IN  /\ obligations' = res.obligations
           /\ obligationMaps' = res.maps
           /\ last' = Served("Create", input.Topic, input, <<>>, res)
    /\ calls' = calls + 1
    /\ UNCHANGED <<audits, txs, dec>>

----------------------------------------------------------------------------
(* DeleteObligation *)

\* db.DB.Where(models.Obligation{Topic: tp}).Save(&obligation): every column of
\* the row of obligation's primary key is written; the error is ignored
Save(obs, tp, obligation) ==
    LET others == {r \in obs : r.Id # obligation.Id}
    IN  IF (\E r \in obs : r.Id = obligation.Id /\ r.Topic = tp) /\ UniqueOk(others, obligation)
        THEN others \cup {obligation}
        ELSE obs

\* A DeleteObligation that removes the row
DeleteResultRemovingRow(obs, tp) ==
    IF ByTopic(obs, tp) = {}
    THEN [status |-> "StatusNotFound", message |-> "obligation not found", data |-> <<>>,
          obligations |-> obs]
    ELSE [status |-> "StatusNoContent", message |-> "", data |-> <<>>,
          obligations |-> obs \ ByTopic(obs, tp)]

\* The handler on the store: [status, message, data, obligations]
DeleteResult(obs, tp) ==
    IF ByTopic(obs, tp) = {}
    THEN [status |-> "StatusNotFound", message |-> "obligation not found", data |-> <<>>,
          obligations |-> obs]
    ELSE LET obligation == [First(ByTopic(obs, tp)) EXCEPT !.Active = FALSE]
         IN  [status |-> "StatusNoContent", message |-> "", data |-> <<>>,
              obligations |-> Save(obs, tp, obligation)]

DeleteObligation(tp) ==
    /\ Idle
    /\ LET res == DeleteResult(obligations, tp)
       IN  /\ obligations' = res.obligations
           /\ last' = Served("Delete", tp, <<>>, <<>>, res)
    /\ calls' = calls + 1
    /\ UNCHANGED <<audits, obligationMaps, txs, dec>>

----------------------------------------------------------------------------
(* The optional / nullable JSON wrappers *)

\* A JSON value is <<"null">>, <<"string", s>>, <<"bool", b>> or <<"number", n>>.
JsonNull == <<"null">>
JsonString(s) == <<"string", s>>
JsonBool(b) == <<"bool", b>>
JsonNumber(n) == <<"number", n>>

\* The zero value of the Go type T
ZeroOf(T) == CASE T = "string" -> "" [] T = "bool" -> FALSE [] T = "number" -> 0

\* var x *T; json.Unmarshal(data, &x): null leaves x nil, a value of T's JSON
\* kind is stored, any other value is an UnmarshalTypeError
UnmarshalPtr(T, data) ==
    IF data = JsonNull THEN [err |-> FALSE, isNil |-> TRUE, x |-> ZeroOf(T)]
    ELSE IF data[1] = T THEN [err |-> FALSE, isNil |-> FALSE, x |-> data[2]]
    ELSE [err |-> TRUE, isNil |-> TRUE, x |-> ZeroOf(T)]

ZeroOptionalNullableData(T) ==
    [IsNull |-> FALSE, IsNotUndefined |-> FALSE, rawJson |-> <<>>, Value |-> ZeroOf(T)]

ZeroOptionalData(T) ==
    [IsNotUndefined |-> FALSE, rawJson |-> <<>>, Value |-> ZeroOf(T)]

\* An UnmarshalJSON that takes T's zero value for a null
OptionalNullableDataUnmarshalJSONZeroAsNull(v, T, data) ==
    LET v1 == [v EXCEPT !.rawJson = data]
    IN  IF Len(v1.rawJson) # 0
        THEN LET v2 == [v1 EXCEPT !.IsNotUndefined = TRUE]
                 r == UnmarshalPtr(T, data)
             IN  IF r.err THEN [err |-> TRUE, v |-> v2]
                 ELSE IF r.isNil \/ r.x = ZeroOf(T)
                 THEN [err |-> FALSE, v |-> [v2 EXCEPT !.IsNull = TRUE]]
                 ELSE [err |-> FALSE, v |-> [v2 EXCEPT !.Value = r.x]]
        ELSE [err |-> FALSE, v |-> v1]

\* (v *OptionalNullableData[T]) UnmarshalJSON(data): [err, v]
OptionalNullableDataUnmarshalJSON(v, T, data) ==
    LET v1 == [v EXCEPT !.rawJson = data]
    IN  IF Len(v1.rawJson) # 0
        THEN LET v2 == [v1 EXCEPT !.IsNotUndefined = TRUE]
                 r == UnmarshalPtr(T, data)
             IN  IF r.err THEN [err |-> TRUE, v |-> v2]
                 ELSE IF r.isNil THEN [err |-> FALSE, v |-> [v2 EXCEPT !.IsNull = TRUE]]
                 ELSE [err |-> FALSE, v |-> [v2 EXCEPT !.Value = r.x]]
        ELSE [err |-> FALSE, v |-> v1]

\* (v *OptionalData[T]) UnmarshalJSON(data): [err, v]
OptionalDataUnmarshalJSON(v, T, data) ==
    LET v1 == [v EXCEPT !.rawJson = data]
    IN  IF Len(v1.rawJson) # 0
        THEN LET r == UnmarshalPtr(T, data)
             IN  IF r.err \/ r.isNil THEN [err |-> TRUE, v |-> v1]
                 ELSE [err |-> FALSE, v |-> [v1 EXCEPT !.Value = r.x, !.IsNotUndefined = TRUE]]
        ELSE [err |-> FALSE, v |-> v1]

\* json.Unmarshal of an object into a struct field: the field's UnmarshalJSON
\* runs on the member's value when the object has the member, and not at all
\* when it has not.  doc is a function from the names of its members.
DecodeOptionalNullable(doc, key, T) ==
    IF key \in DOMAIN doc
    THEN OptionalNullableDataUnmarshalJSON(ZeroOptionalNullableData(T), T, doc[key])
    ELSE [err |-> FALSE, v |-> ZeroOptionalNullableData(T)]

DecodeOptional(doc, key, T) ==
    IF key \in DOMAIN doc
    THEN OptionalDataUnmarshalJSON(ZeroOptionalData(T), T, doc[key])
    ELSE [err |-> FALSE, v |-> ZeroOptionalData(T)]

----------------------------------------------------------------------------
(* UpdateObligation *)

\* models.ObligationPATCHRequestJSONSchema: the members of the body and the
\* wrapper each is decoded into
PATCHKeys ==
    {"text", "type", "classification", "modifications", "comment", "active", "text_updatable"}

\* c.ShouldBindJSON(&updates): [err, updates]
ShouldBindPATCH(doc) ==
    LET text == DecodeOptional(doc, "text", "string")
        type == DecodeOptional(doc, "type", "string")
        classification == DecodeOptional(doc, "classification", "string")
        modifications == DecodeOptional(doc, "modifications", "bool")
        comment == DecodeOptionalNullable(doc, "comment", "string")
        active == DecodeOptional(doc, "active", "bool")
        textUpdatable == DecodeOptional(doc, "text_updatable", "bool")
    IN  [err |-> text.err \/ type.err \/ classification.err \/ modifications.err
                    \/ comment.err \/ active.err \/ textUpdatable.err,
         updates |-> [Text |-> text.v, Type |-> type.v, Classification |-> classification.v,
                      Modifications |-> modifications.v, Comment |-> comment.v,
                      Active |-> active.v, TextUpdatable |-> textUpdatable.v]]

EmptyMap == [c \in {} |-> ""]

\* The values a member of a request body takes in the model
RawValues(key) ==
    CASE key = "text" -> {JsonString(""), JsonNumber(5)} \cup {JsonString(t) : t \in Texts}
      [] key = "type" -> {JsonString(""), JsonNull} \cup {JsonString(t) : t \in Types}
      [] key = "classification" -> {JsonString("")} \cup {JsonString(t) : t \in Classifications}
      [] key = "comment" -> {JsonNull, JsonString(""), JsonString("c")}
      [] OTHER -> {JsonBool(TRUE), JsonBool(FALSE)}

\* A value of member key that differs from what CreateObligation's first
\* request body stores
ChangingValue(key) ==
    CASE key = "text" -> JsonString("Attribution is required")
      [] key = "type" -> JsonString("RIGHT")
      [] key = "classification" -> JsonString("red")
      [] key = "comment" -> JsonString("c")
      [] key = "active" -> JsonBool(FALSE)
      [] OTHER -> JsonBool(TRUE)

\* The request bodies of PATCH /obligations/{topic} the model sends: the empty
\* body, every body of one member, and the bodies that give two members, or
\* all of them, a changing value
PATCHBodies ==
    {EmptyMap}
    \cup UNION { {[k \in {key} |-> v] : v \in RawValues(key)} : key \in PATCHKeys }
    \cup { [k \in K |-> ChangingValue(k)] :
             K \in {{a, b} : a, b \in PATCHKeys} \cup {PATCHKeys} }

\* The acting user, and the statement of the transaction the database fails.
Envs ==
    {[username |-> "alice", fault |-> "none"], [username |-> "alice", fault |-> "update"],
     [username |-> "alice", fault |-> "audit"], [username |-> "ghost", fault |-> "none"]}

\* newObligationMap written onto a row
ApplyMap(row, m) ==
    LET col(c, cur) == IF c \in DOMAIN m THEN m[c] ELSE cur
    IN  [Id |-> row.Id, Topic |-> row.Topic,
         Type |-> col("type", row.Type), Text |-> col("text", row.Text),
         Classification |-> col("classification", row.Classification),
         Comment |-> col("comment", row.Comment),
         Modifications |-> col("modifications", row.Modifications),
         Active |-> col("active", row.Active),
         TextUpdatable |-> col("text_updatable", row.TextUpdatable),
         Md5 |-> col("md5", row.Md5)]

\* tx.Model(&newObligation).Clauses(clause.Returning{}).Updates(newObligationMap),
\* newObligation holding the id only: [err, newObligation, obligations].
\* An empty map has nothing to SET: no statement is run and nothing is returned
\* into newObligation.
Updates(obs, id, m, fault) ==
    IF DOMAIN m = {}
    THEN [err |-> FALSE, newObligation |-> [ZeroObligation EXCEPT !.Id = id], obligations |-> obs]
    ELSE LET cur == CHOOSE r \in obs : r.Id = id
             others == obs \ {cur}
             row == ApplyMap(cur, m)
         IN  IF fault = "update" \/ ~UniqueOk(others, row)
             THEN [err |-> TRUE, newObligation |-> [ZeroObligation EXCEPT !.Id = id],
                   obligations |-> obs]
             ELSE [err |-> FALSE, newObligation |-> row, obligations |-> others \cup {row}]

\* One models.ChangeLog
ChangeLog(field, old, new) == [Field |-> field, OldValue |-> old, UpdatedValue |-> new]

\* The comparison of the snapshot with the returned row, field by field
Changes(oldObligation, newObligation) ==
    (IF oldObligation.Topic # newObligation.Topic
     THEN <<ChangeLog("Topic", Ptr(oldObligation.Topic), Ptr(newObligation.Topic))>> ELSE <<>>)
    \o (IF oldObligation.Type # newObligation.Type
        THEN <<ChangeLog("Type", Ptr(oldObligation.Type), Ptr(newObligation.Type))>> ELSE <<>>)
    \o (IF oldObligation.Text # newObligation.Text
        THEN <<ChangeLog("Text", Ptr(oldObligation.Text), Ptr(newObligation.Text))>> ELSE <<>>)
    \o (IF oldObligation.Classification # newObligation.Classification
        THEN <<ChangeLog("Classification", Ptr(FormatBool(oldObligation.Modifications)),
                         Ptr(FormatBool(newObligation.Modifications)))>> ELSE <<>>)
    \o (IF oldObligation.Modifications # newObligation.Modifications
        THEN <<ChangeLog("Modifications", Ptr(FormatBool(oldObligation.Modifications)),
                         Ptr(FormatBool(newObligation.Modifications)))>> ELSE <<>>)
    \o (IF oldObligation.Comment # newObligation.Comment
        THEN <<ChangeLog("Comment",
                         IF oldObligation.Comment.Valid THEN Ptr(oldObligation.Comment.String) ELSE Nil,
                         IF newObligation.Comment.Valid THEN Ptr(newObligation.Comment.String) ELSE Nil)>>
        ELSE <<>>)
    \o (IF oldObligation.Active # newObligation.Active
        THEN <<ChangeLog("Active", Ptr(FormatBool(oldObligation.Active)),
                         Ptr(FormatBool(newObligation.Active)))>> ELSE <<>>)
    \o (IF oldObligation.TextUpdatable # newObligation.TextUpdatable
        THEN <<ChangeLog("TextUpdatable", Ptr(FormatBool(oldObligation.TextUpdatable)),
                         Ptr(FormatBool(newObligation.TextUpdatable)))>> ELSE <<>>)

\* A newObligationMap that takes a boolean only when it is true, as an update
\* from a struct would
NewObligationMapSkippingFalse(oldObligation, updates) ==
    (IF oldObligation.TextUpdatable
        /\ (updates.Text.Value # "" /\ updates.Text.Value # oldObligation.Text)
     THEN ("md5" :> Md5Hex(updates.Text.Value)) @@ ("text" :> updates.Text.Value)
     ELSE EmptyMap)
    @@ (IF updates.Type.IsNotUndefined THEN "type" :> updates.Type.Value ELSE EmptyMap)
    @@ (IF updates.Classification.IsNotUndefined
        THEN "classification" :> updates.Classification.Value ELSE EmptyMap)
    @@ (IF updates.Modifications.Value THEN "modifications" :> TRUE ELSE EmptyMap)
    @@ (IF updates.Comment.IsNotUndefined
        THEN "comment" :> (IF ~updates.Comment.IsNull
                           THEN NullStr(updates.Comment.Value) ELSE NullStrNone)
        ELSE EmptyMap)
    @@ (IF updates.Active.Value THEN "active" :> TRUE ELSE EmptyMap)
    @@ (IF updates.TextUpdatable.Value THEN "text_updatable" :> TRUE ELSE EmptyMap)

\* newObligationMap, built from the members the body provided
NewObligationMap(oldObligation, updates) ==
    (IF oldObligation.TextUpdatable
        /\ (updates.Text.Value # "" /\ updates.Text.Value # oldObligation.Text)
     THEN ("md5" :> Md5Hex(updates.Text.Value)) @@ ("text" :> updates.Text.Value)
     ELSE EmptyMap)
    @@ (IF updates.Type.IsNotUndefined THEN "type" :> updates.Type.Value ELSE EmptyMap)
    @@ (IF updates.Classification.IsNotUndefined
        THEN "classification" :> updates.Classification.Value ELSE EmptyMap)
    @@ (IF updates.Modifications.IsNotUndefined
        THEN "modifications" :> updates.Modifications.Value ELSE EmptyMap)
    @@ (IF updates.Comment.IsNotUndefined
        THEN "comment" :> (IF ~updates.Comment.IsNull
                           THEN NullStr(updates.Comment.Value) ELSE NullStrNone)
        ELSE EmptyMap)
    @@ (IF updates.Active.IsNotUndefined THEN "active" :> updates.Active.Value ELSE EmptyMap)
    @@ (IF updates.TextUpdatable.IsNotUndefined
        THEN "text_updatable" :> updates.TextUpdatable.Value ELSE EmptyMap)

\* What the function given to db.DB.Transaction returns and leaves in tx
TxResult(err, status, message, data, obs, auds) ==
    [err |-> err, status |-> status, message |-> message, data |-> data,
     obligations |-> obs, audits |-> auds]

\* The write of the audit, after the row write and the user lookup
WriteAudit(obs, auds, oldObligation, newObligation, env) ==
    LET changes == Changes(oldObligation, newObligation)
        audit == [UserId |-> UserTable[env.username], TypeId |-> newObligation.Id,
                  Type |-> "Obligation", ChangeLogs |-> changes]
    IN  IF Len(changes) # 0
        THEN IF env.fault = "audit"
             THEN TxResult(TRUE, "StatusInternalServerError", "Failed to update license",
                           <<>>, obs, auds)
             ELSE TxResult(FALSE, "StatusOK", "", newObligation, obs, Append(auds, audit))
        ELSE TxResult(FALSE, "StatusOK", "", newObligation, obs, auds)

\* The body is bound and checked against the snapshot: [err, message, m], m
\* the newObligationMap
BindAndValidate(oldObligation, doc) ==
    LET bound == ShouldBindPATCH(doc)
        updates == bound.updates
    IN  IF bound.err
        THEN [err |-> TRUE, message |-> "invalid json body", m |-> EmptyMap]
        ELSE IF updates.Text.Value # "" /\ ~oldObligation.TextUpdatable
                /\ updates.Text.Value # oldObligation.Text
        THEN [err |-> TRUE, message |-> "Can not update obligation text", m |-> EmptyMap]
        ELSE IF updates.Type.IsNotUndefined /\ updates.Type.Value = ""
        THEN [err |-> TRUE, message |-> "Type cannot be an empty string", m |-> EmptyMap]
        ELSE IF updates.Classification.IsNotUndefined /\ updates.Classification.Value = ""
        THEN [err |-> TRUE, message |-> "Classification cannot be an empty string",
              m |-> EmptyMap]
        ELSE [err |-> FALSE, message |-> "", m |-> NewObligationMap(oldObligation, updates)]

\* The user lookup and the audit, after the row write
LookupUserAndAudit(obs, auds, oldObligation, newObligation, env) ==
    IF env.username \notin DOMAIN UserTable
    THEN TxResult(TRUE, "StatusInternalServerError", "Failed to update license",
                  <<>>, obs, auds)
    ELSE WriteAudit(obs, auds, oldObligation, newObligation, env)

\* The function given to db.DB.Transaction, on the tables as tx sees them
UpdateTx(obs, auds, tp, doc, env) ==
    IF ByTopic(obs, tp) = {}
    THEN TxResult(TRUE, "StatusNotFound", "obligation not found", <<>>, obs, auds)
    ELSE
    LET oldObligation == First(ByTopic(obs, tp))
        checked == BindAndValidate(oldObligation, doc)
    IN  IF checked.err
        THEN TxResult(TRUE, "StatusBadRequest", checked.message, <<>>, obs, auds)
        ELSE
        LET written == Updates(obs, oldObligation.Id, checked.m, env.fault)
        IN  IF written.err
            THEN TxResult(TRUE, "StatusInternalServerError", "Failed to update license",
                          <<>>, written.obligations, auds)
            ELSE LookupUserAndAudit(written.obligations, auds, oldObligation,
                                    written.newObligation, env)

\* A Transaction that commits fn's writes whatever fn returns
TransactionWithoutRollback(committed, res) == res

\* db.DB.Transaction(fn): fn's writes are committed when fn returns nil and
\* rolled back when it returns an error
Transaction(committed, res) ==
    IF res.err
    THEN [res EXCEPT !.obligations = committed.obligations, !.audits = committed.audits]
    ELSE res

UpdateObligation(tp, doc, env) ==
    /\ Idle
    /\ LET res == Transaction([obligations |-> obligations, audits |-> audits],
                              UpdateTx(obligations, audits, tp, doc, env))
       IN  /\ obligations' = res.obligations
           /\ audits' = res.audits
           /\ last' = Served("Update", tp, doc, env, res)
    /\ calls' = calls + 1
    /\ UNCHANGED <<obligationMaps, txs, dec>>

----------------------------------------------------------------------------
\* A request on a topic that has no row ends before its body is read: one body stands for all.
Next ==
    \/ Idle /\ \E input \in POSTBodies : CreateObligation(input)
    \/ Idle /\ \E tp \in Topics, doc \in PATCHBodies, env \in Envs :
          /\ ByTopic(obligations, tp) = {} => (doc = EmptyMap /\ env.fault = "none")
          /\ UpdateObligation(tp, doc, env)
    \/ Idle /\ \E tp \in Topics : DeleteObligation(tp)
    \/ Reply

Spec == Init /\ [][Next]_vars
----------------------------------------------------------------------------
(* SpecConc: the handlers of two workers, statement by statement.  A statement *)
(* outside a transaction commits at once.  Inside db.DB.Transaction a SELECT    *)
(* reads the committed rows and takes no lock; the UPDATE works on the          *)
(* committed row, locks it, and is seen by the others at the commit.            *)

\* Requests accepted in one behaviour of SpecConc.
MaxConcCalls == 4

ConcPOSTBodies ==
    {p \in POSTBodies :
        /\ p.Type = "RISK"
        /\ (p.Topic = "T1" /\ p.Text = "hello")
             \/ (p.Topic = "T2" /\ p.Text = "Attribution is required")}

ConcPATCHBodies ==
    {[k \in {key} |-> ChangingValue(key)] : key \in {"active", "type", "text_updatable", "text"}}

ConcEnvs == {e \in Envs : e.fault = "none"}

\* The versions, committed and not, of the row worker v has locked
LockedBy(v) ==
    IF txs[v].locked = 0 THEN {}
    ELSE {r \in obligations : r.Id = txs[v].locked} \cup {txs[v].newObligation}

\* The write of row by worker w has to wait for the end of another worker's
\* transaction: that one has locked the row, or a row the unique indexes
\* compare it with
Waits(w, row) ==
    \E v \in Workers \ {w} :
        \/ txs[v].locked # 0 /\ txs[v].locked = row.Id
        \/ ~UniqueOk({r \in LockedBy(v) : r.Id # row.Id}, row)

\* The handler of w has written its response
Done(w, status) == [txs[w] EXCEPT !.pc = "done", !.status = status, !.locked = 0]

\* A worker takes a request
Begin(w, op, tp, input, env) ==
    /\ txs[w].pc = "idle"
    /\ calls < MaxConcCalls
    /\ txs' = [txs EXCEPT ![w] = [IdleTx EXCEPT !.pc = "start", !.op = op, !.topic = tp,
                                                !.input = input, !.env = env]]
    /\ calls' = calls + 1
    /\ UNCHANGED <<obligations, audits, obligationMaps, last, dec>>

\* CreateObligation: the SELECT of FirstOrCreate
CreateFind(w) ==
    /\ txs[w].pc = "start" /\ txs[w].op = "Create"
    /\ LET obligation == ObligationOf(txs[w].input)
           found == TopicOrMd5(obligations, obligation.Topic, obligation.Md5)
           res == CreateResponse([obligation |-> First(found), RowsAffected |-> 0,
                                  obligations |-> obligations],
                                 obligationMaps, txs[w].input)
       IN  txs' = [txs EXCEPT ![w] =
                      IF found # {}
                      THEN [Done(w, res.status) EXCEPT !.found = TRUE]
                      ELSE [txs[w] EXCEPT !.pc = "insert", !.obligation = obligation]]
    /\ UNCHANGED <<obligations, audits, obligationMaps, last, calls, dec>>

\* CreateObligation: the INSERT of FirstOrCreate, and the rest of the handler
CreateInsert(w) ==
    /\ txs[w].pc = "insert"
    /\ ~Waits(w, [txs[w].obligation EXCEPT !.Id = NextId(obligations)])
    /\ LET result == Insert(obligations, txs[w].obligation)
           res == CreateResponse(result, obligationMaps, txs[w].input)
       IN  /\ obligations' = res.obligations
           /\ obligationMaps' = res.maps
           /\ txs' = [txs EXCEPT ![w] = [Done(w, res.status) EXCEPT !.obligation = result.obligation]]
    /\ UNCHANGED <<audits, last, calls, dec>>

\* UpdateObligation: tx.Where(...).First(&oldObligation), the binding of the
\* body and the checks of it
UpdateRead(w) ==
    /\ txs[w].pc = "start" /\ txs[w].op = "Update"
    /\ LET rows == ByTopic(obligations, txs[w].topic)
           oldObligation == First(rows)
           checked == BindAndValidate(oldObligation, txs[w].input)
       IN  txs' = [txs EXCEPT ![w] =
                      IF rows = {} THEN Done(w, "StatusNotFound")
                      ELSE IF checked.err THEN Done(w, "StatusBadRequest")
                      ELSE [txs[w] EXCEPT !.pc = "write", !.obligation = oldObligation,
                                          !.m = checked.m]]
    /\ UNCHANGED <<obligations, audits, obligationMaps, last, calls, dec>>

\* UpdateObligation: tx.Model(&newObligation).Clauses(clause.Returning{}).Updates(...);
\* an error rolls the transaction back
UpdateWrite(w) ==
    /\ txs[w].pc = "write"
    /\ LET id == txs[w].obligation.Id
           cur == CHOOSE r \in obligations : r.Id = id
           written == Updates(obligations, id, txs[w].m, txs[w].env.fault)
       IN  /\ DOMAIN txs[w].m # {} => ~Waits(w, ApplyMap(cur, txs[w].m))
           /\ txs' = [txs EXCEPT ![w] =
                         IF written.err THEN Done(w, "StatusInternalServerError")
                         ELSE [txs[w] EXCEPT !.pc = "audit",
                                             !.newObligation = written.newObligation,
                                             !.locked = IF DOMAIN txs[w].m # {} THEN id ELSE 0,
                                             !.before = cur]]
    /\ UNCHANGED <<obligations, audits, obligationMaps, last, calls, dec>>

\* Worker w commits a write of the row of primary key id: the workers that
\* have read the row and not yet written it have been overtaken
Overtaken(w, id, t) ==
    [v \in Workers |->
        IF v = w THEN t
        ELSE IF txs[v].pc \in {"write", "save"} /\ txs[v].obligation.Id = id
        THEN [txs[v] EXCEPT !.raced = @ \cup {txs[w].op}]
        ELSE txs[v]]

\* UpdateObligation: the user lookup, the comparison, the audit and the end of
\* the transaction
UpdateCommit(w) ==
    /\ txs[w].pc = "audit"
    /\ LET res == LookupUserAndAudit(obligations, audits, txs[w].obligation,
                                     txs[w].newObligation, txs[w].env)
           id == txs[w].obligation.Id
           t == [Done(w, res.status) EXCEPT
                    !.changes = IF Len(res.audits) > Len(audits)
                                THEN res.audits[Len(res.audits)].ChangeLogs ELSE <<>>]
       IN  IF res.err
           THEN /\ txs' = [txs EXCEPT ![w] = t]
                /\ UNCHANGED <<obligations, audits>>
           ELSE /\ obligations' = IF txs[w].locked = 0 THEN obligations
                                  ELSE {r \in obligations : r.Id # id} \cup {txs[w].newObligation}
                /\ audits' = res.audits
                /\ txs' = IF txs[w].locked = 0 THEN [txs EXCEPT ![w] = t]
                          ELSE Overtaken(w, id, t)
    /\ UNCHANGED <<obligationMaps, last, calls, dec>>

\* DeleteObligation: db.DB.Where(...).First(&obligation), obligation.Active = false
DeleteFirst(w) ==
    /\ txs[w].pc = "start" /\ txs[w].op = "Delete"
    /\ LET rows == ByTopic(obligations, txs[w].topic)
       IN  txs' = [txs EXCEPT ![w] =
                      IF rows = {} THEN Done(w, "StatusNotFound")
                      ELSE [txs[w] EXCEPT !.pc = "save",
                                          !.obligation = [First(rows) EXCEPT !.Active = FALSE]]]
    /\ UNCHANGED <<obligations, audits, obligationMaps, last, calls, dec>>

\* DeleteObligation: db.DB.Where(...).Save(&obligation)
DeleteSave(w) ==
    /\ txs[w].pc = "save"
    /\ ~Waits(w, txs[w].obligation)
    /\ obligations' = Save(obligations, txs[w].topic, txs[w].obligation)
    /\ txs' = Overtaken(w, txs[w].obligation.Id, Done(w, "StatusNoContent"))
    /\ UNCHANGED <<audits, obligationMaps, last, calls, dec>>

\* The worker is free for the next request
Finish(w) ==
    /\ txs[w].pc = "done"
    /\ txs' = [txs EXCEPT ![w] = IdleTx]
    /\ UNCHANGED <<obligations, audits, obligationMaps, last, calls, dec>>

NextConc ==
    \E w \in Workers :
        \/ \E input \in ConcPOSTBodies : Begin(w, "Create", input.Topic, input, <<>>)
        \/ \E doc \in ConcPATCHBodies, env \in ConcEnvs : Begin(w, "Update", "T1", doc, env)
        \/ Begin(w, "Delete", "T1", <<>>, <<>>)
        \/ CreateFind(w)
        \/ CreateInsert(w)
        \/ UpdateRead(w)
        \/ UpdateWrite(w)
        \/ UpdateCommit(w)
        \/ DeleteFirst(w)
        \/ DeleteSave(w)
        \/ Finish(w)

SpecConc == Init /\ [][NextConc]_vars

----------------------------------------------------------------------------
(* SpecDecode: json.Unmarshal of a document into struct { F OptionalNullableData[T] } *)

DecodeTypes == {"string", "bool", "number"}

JsonValues ==
    {JsonNull, JsonString(""), JsonString("x"), JsonBool(TRUE), JsonBool(FALSE),
     JsonNumber(0), JsonNumber(1)}

\* The documents decoded: member f absent or of any JSON value, next to a
\* member g the struct has no field for
DecodeDocs ==
    UNION { {doc \in [S -> JsonValues] :
                "g" \in S => doc["g"] \in {JsonNull, JsonString("x")}} :
            S \in SUBSET {"f", "g"} }

InitDecode ==
    /\ obligations = {}
    /\ audits = <<>>
    /\ obligationMaps = <<>>
    /\ last = NoCall
    /\ calls = 0
    /\ txs = [w \in Workers |-> IdleTx]
    /\ \E T \in DecodeTypes, doc \in DecodeDocs :
          dec = [pc |-> "start", T |-> T, doc |-> doc,
                 s |-> [F |-> ZeroOptionalNullableData(T)], err |-> FALSE]

Unmarshal ==
    /\ dec.pc = "start"
    /\ LET r == DecodeOptionalNullable(dec.doc, "f", dec.T)
       IN  dec' = [dec EXCEPT !.pc = "done", !.s = [F |-> r.v], !.err = r.err]
    /\ UNCHANGED <<obligations, audits, obligationMaps, last, calls, txs>>

NextDecode == Unmarshal

SpecDecode == InitDecode /\ [][NextDecode]_vars

\* C10: decoding a document into an OptionalNullableData[T] field gives, with
\* no error, undefined when the member is absent, null when it is null and
\* present(value) when it is a value of T (T's zero value too); a value that
\* is not of T is a decode error.
C10_TriStateDecode ==
    dec.pc = "done" =>
        LET F == dec.s.F
        IN  IF "f" \notin DOMAIN dec.doc
            THEN ~dec.err /\ ~F.IsNotUndefined /\ ~F.IsNull
            ELSE IF dec.doc["f"] = JsonNull
            THEN ~dec.err /\ F.IsNotUndefined /\ F.IsNull
            ELSE IF dec.doc["f"][1] = dec.T
            THEN ~dec.err /\ F.IsNotUndefined /\ ~F.IsNull /\ F.Value = dec.doc["f"][2]
            ELSE dec.err

\* T's zero value was decoded as present(zero)
C10_Witness ==
    /\ dec.pc = "done"
    /\ "f" \in DOMAIN dec.doc
    /\ dec.doc["f"] = <<dec.T, ZeroOf(dec.T)>>
    /\ dec.s.F = [IsNull |-> FALSE, IsNotUndefined |-> TRUE, rawJson |-> dec.doc["f"],
                  Value |-> ZeroOf(dec.T)]

----------------------------------------------------------------------------
(* Properties of the handlers, read off the served call *)

\* The row of topic tp, as the handlers load it
RowOf(obs, tp) == First(ByTopic(obs, tp))

\* The served call was on a topic that had a row
OnExisting == ByTopic(last.preObligations, last.topic) # {}

\* The body of the served Update has member k, a JSON string / bool
HasString(k) == k \in DOMAIN last.input /\ last.input[k][1] = "string"
HasBool(k) == k \in DOMAIN last.input /\ last.input[k][1] = "bool"

StoreUnchanged ==
    /\ obligations = last.preObligations
    /\ audits = last.preAudits
    /\ obligationMaps = last.preMaps

\* C1: a Create whose topic, or whose text's digest, is that of an existing row
\* ends with 409 Conflict and leaves the obligations table as it was.
C1_CreateConflict ==
    (/\ last.op = "Create"
     /\ \E r \in last.preObligations :
           r.Topic = last.input.Topic \/ r.Md5 = Md5Hex(last.input.Text))
    => (last.status = "StatusConflict" /\ obligations = last.preObligations)

\* C2: an Update on an existing topic whose body provides a text that differs
\* from the row's text succeeds only on a text-updatable row, and then replaces
\* text and digest; on a row that is not text-updatable it fails with 400 and
\* leaves the row and the audits as they were.
C2_UpdateTextPolicy ==
    (/\ last.op = "Update"
     /\ OnExisting
     /\ HasString("text")
     /\ last.input["text"][2] # RowOf(last.preObligations, last.topic).Text)
    => LET old == RowOf(last.preObligations, last.topic)
           new == RowOf(obligations, last.topic)
           text == last.input["text"][2]
       IN  IF old.TextUpdatable
           THEN last.status = "StatusOK" => (new.Text = text /\ new.Md5 = Md5Hex(text))
           ELSE last.status = "StatusBadRequest" /\ StoreUnchanged

\* C3: an Update that ends in an error leaves the obligations and the audits
\* as they were before the call.
C3_UpdateAtomicity ==
    (last.op = "Update" /\ last.status # "StatusOK")
    => (obligations = last.preObligations /\ audits = last.preAudits)

\* The user lookup failed after a row write that had changed the row
C3_Witness ==
    /\ last.op = "Update"
    /\ OnExisting
    /\ last.status = "StatusInternalServerError"
    /\ last.env.username = "ghost"
    /\ HasBool("active")
    /\ last.input["active"][2] # RowOf(last.preObligations, last.topic).Active
    /\ obligations = last.preObligations

C8_ConcurrentUpdates ==
    \A w \in Workers :
        (/\ txs[w].op = "Update" /\ txs[w].pc = "done"
         /\ txs[w].status = "StatusOK"
         /\ DOMAIN txs[w].m # {}
         /\ txs[w].raced \subseteq {"Update"})
        => txs[w].changes = Changes(txs[w].before, txs[w].newObligation)

\* The links of obligation id to the licenses that the names of shortnames name
RECURSIVE LinksOf(_, _)
LinksOf(id, shortnames) ==
    IF shortnames = <<>> THEN <<>>
    ELSE (IF Head(shortnames) \in DOMAIN LicenseTable
          THEN <<[ObligationPk |-> id, RfPk |-> LicenseTable[Head(shortnames)]]>> ELSE <<>>)
         \o LinksOf(id, Tail(shortnames))

\* C11: a successful Create adds to obligation_licenses one link (new
\* obligation id, license id) for each supplied shortname that names a license,
\* in the order supplied, and nothing for a shortname that names none; a
\* Create that fails adds no link.
C11_LicenseLinks ==
    last.op = "Create" =>
        IF last.status = "StatusCreated"
        THEN obligationMaps = last.preMaps \o LinksOf(last.data.Id, last.input.Shortnames)
        ELSE obligationMaps = last.preMaps

\* What the change log shows of a field of a row: strings as they are,
\* booleans as "true" / "false", a null comment as a nil pointer
Rendered(row, field) ==
    CASE field = "Topic" -> Ptr(row.Topic)
      [] field = "Type" -> Ptr(row.Type)
      [] field = "Text" -> Ptr(row.Text)
      [] field = "Classification" -> Ptr(row.Classification)
      [] field = "Modifications" -> Ptr(FormatBool(row.Modifications))
      [] field = "Comment" -> IF row.Comment.Valid THEN Ptr(row.Comment.String) ELSE Nil
      [] field = "Active" -> Ptr(FormatBool(row.Active))
      [] field = "TextUpdatable" -> Ptr(FormatBool(row.TextUpdatable))

\* The served Update wrote an audit
WroteAudit == last.op = "Update" /\ Len(audits) > Len(last.preAudits)

\* C5: in the audit an Update writes, every change log holds the renderings of
\* its field in the snapshot taken before the update and in the row the update
\* returned.
C5_ChangeLogValues ==
    WroteAudit =>
        LET old == RowOf(last.preObligations, last.topic)
            new == last.data
            logs == audits[Len(audits)].ChangeLogs
        IN  \A i \in DOMAIN logs :
                /\ logs[i].OldValue = Rendered(old, logs[i].Field)
                /\ logs[i].UpdatedValue = Rendered(new, logs[i].Field)

TrackedFields ==
    <<"Topic", "Type", "Text", "Classification", "Modifications", "Comment", "Active",
      "TextUpdatable">>

\* The tracked fields in which two rows differ, in the order of TrackedFields
RECURSIVE Differing(_, _, _)
Differing(old, new, fields) ==
    IF fields = <<>> THEN <<>>
    ELSE (IF Rendered(old, Head(fields)) # Rendered(new, Head(fields))
          THEN <<Head(fields)>> ELSE <<>>) \o Differing(old, new, Tail(fields))

\* C6: a successful Update writes no audit when the row after it equals the
\* row before it in every tracked field, and otherwise one audit (of the
\* obligation's id, of type "Obligation", of the acting user) with one change
\* log per differing field, in the order of TrackedFields.
C6_AuditStructure ==
    (last.op = "Update" /\ last.status = "StatusOK")
    => LET old == RowOf(last.preObligations, last.topic)
           new == RowOf(obligations, last.topic)
           diff == Differing(old, new, TrackedFields)
       IN  IF diff = <<>>
           THEN audits = last.preAudits
           ELSE /\ Len(audits) = Len(last.preAudits) + 1
                /\ SubSeq(audits, 1, Len(last.preAudits)) = last.preAudits
                /\ LET audit == audits[Len(audits)]
                   IN  /\ audit.TypeId = old.Id
                       /\ audit.Type = "Obligation"
                       /\ audit.UserId = UserTable[last.env.username]
                       /\ [i \in DOMAIN audit.ChangeLogs |-> audit.ChangeLogs[i].Field] = diff

C9_Deactivate ==
    last.op = "Delete" =>
        /\ audits = last.preAudits
        /\ obligationMaps = last.preMaps
        /\ IF ~OnExisting
           THEN last.status = "StatusNotFound" /\ obligations = last.preObligations
           ELSE LET old == RowOf(last.preObligations, last.topic)
                IN  /\ last.status = "StatusNoContent"
                    /\ obligations = (last.preObligations \ {old})
                                        \cup {[old EXCEPT !.Active = FALSE]}
        /\ last.prevDeleted = last.topic => obligations = last.preObligations

\* The second of two Deactivate calls in a row on a topic that was active
C9_Witness ==
    /\ last.op = "Delete"
    /\ last.status = "StatusNoContent"
    /\ last.prevDeleted = last.topic
    /\ \E input \in POSTBodies : input.Topic = last.topic /\ input.Active
                                    /\ last.preObligations = {[
                                          RowOf(last.preObligations, last.topic)
                                          EXCEPT !.Active = FALSE]}
    /\ ~RowOf(obligations, last.topic).Active
====
